---- MODULE Spec2Model ----
(***************************************************************************)
(* Retrieval-augmented-generation backend: the citation builder of         *)
(* generate (backend/ask.py), the streaming handler SteamCustomHandler     *)
(* (backend/libs/handler.py) and the relay between the generation threads  *)
(* and the response generators of /ask, which share the module-level       *)
(* streamer_queue.                                                         *)
(*                                                                         *)
(* Text is a sequence of one-character strings.  Similarity scores and the *)
(* relevance threshold are counted in tenths (0.4 is 4).                   *)
(***************************************************************************)
EXTENDS Integers, Sequences, FiniteSets, TLC

VARIABLES
    relevance_threshold,            \* config "defaults.relevance_threshold"
    max_citations,                  \* config "defaults.max_citations"
    similar_documents_with_scores,  \* builder run: the ranked hit list
    citations,                      \* builder run: the citation list
    filtered_documents,             \* builder run: the documents of the prompt
    context_with_citations,         \* builder run: the numbered reference block
    built,                          \* builder run: the loops have run
    streamer_queue,                 \* the module-level Queue()
    gen,                            \* per request: position of the generation thread
    handler,                        \* per request: the SteamCustomHandler of the thread
    similar,                        \* per request: the hits retrieval returned
    ntokens,                        \* per request: tokens the model has generated
    response,                       \* per request: the text the model has generated
    llm_invoked,                    \* per request: llm.invoke was called
    con,                            \* per request: position of response_generator
    put,                            \* per request: history of the values its thread put
    taken,                          \* per request: history of the entries its consumer got
    frames,                         \* per request: the wire frames yielded
    ask,                            \* per request: the /ask call, its headers and outcome
    strip_text,                     \* stripping run: the response text
    strip_citations,                \* stripping run: the handler's citation list
    stripped,                       \* stripping run: the text after one pass
    stripped_again,                 \* stripping run: the text after a second pass
    prompt,                         \* per request: the prompt given to llm.invoke
    doc_metadata,                   \* metadata run: doc.metadata of an accepted hit
    cited,                          \* metadata run: local_path and page of its citation
    conversations,                  \* store: the rows of table conversations
    messages,                       \* store: the rows of table messages
    db_call                         \* store: the last call of the manager and its result

builderVars == <<similar_documents_with_scores, citations, filtered_documents,
                 context_with_citations, built>>
configVars == <<relevance_threshold, max_citations>>
relayVars == <<streamer_queue, gen, handler, similar, ntokens, response,
               llm_invoked, con, put, taken, frames, prompt>>
askVars == <<ask>>
stripVars == <<strip_text, strip_citations, stripped, stripped_again>>
pageVars == <<doc_metadata, cited>>
dbVars == <<conversations, messages, db_call>>
vars == <<configVars, builderVars, relayVars, askVars, stripVars, pageVars, dbVars>>

----------------------------------------------------------------------------
(* Bounds of the model *)

NumRequests == 2
MaxTokens == 2
MaxHits == 3
MaxScore == 6
MaxCitationsConfig == 5
MaxTextLen == 6
MaxHistory == 2
MaxPage == 2
NumConversations == 2
NumMessageIds == 2
MaxMessages == 2

(* Program constants *)

DefaultRelevanceThreshold == 4
DefaultMaxCitations == 5
BufferCap == 100
TitlePrefixLen == 7
DefaultMaxQueryLength == 1000
QueueMaxSize == 0

Requests == 1..NumRequests

----------------------------------------------------------------------------
(* Python string helpers *)

Whitespace == {" ", "\n", "\t", "\r"}
Digits == {"0", "1", "2", "3", "4", "5", "6", "7", "8", "9"}

DigitVal(c) ==
    CASE c = "0" -> 0 [] c = "1" -> 1 [] c = "2" -> 2 [] c = "3" -> 3
      [] c = "4" -> 4 [] c = "5" -> 5 [] c = "6" -> 6 [] c = "7" -> 7
      [] c = "8" -> 8 [] c = "9" -> 9

\* s[a:b] with 1-based inclusive bounds; empty when b < a
Slice(s, a, b) == IF b < a THEN <<>> ELSE SubSeq(s, a, b)

\* str.strip()
RECURSIVE LStrip(_)
LStrip(s) ==
    IF s # <<>> /\ Head(s) \in Whitespace THEN LStrip(Tail(s)) ELSE s

RECURSIVE RStrip(_)
RStrip(s) ==
    IF s # <<>> /\ s[Len(s)] \in Whitespace
    THEN RStrip(SubSeq(s, 1, Len(s) - 1))
    ELSE s

Strip(s) == RStrip(LStrip(s))

\* position of the first "\n" of s, 0 when there is none
NewlinePos(s) ==
    IF \E i \in 1..Len(s) : s[i] = "\n"
    THEN CHOOSE i \in 1..Len(s) :
            s[i] = "\n" /\ \A j \in 1..(i - 1) : s[j] # "\n"
    ELSE 0

\* str.split('\n', 1)
Split1(s) ==
    LET p == NewlinePos(s)
    IN  IF p = 0 THEN <<s>>
        ELSE <<Slice(s, 1, p - 1), Slice(s, p + 1, Len(s))>>

TitlePrefix == <<"T", "I", "T", "L", "E", ":", " ">>

\* str.startswith('TITLE: ')
StartsWithTitle(s) ==
    Len(s) >= TitlePrefixLen /\ SubSeq(s, 1, TitlePrefixLen) = TitlePrefix

----------------------------------------------------------------------------
(* The regular expression \[(\d+)\] *)

\* int() of the digit string s[a..b]
RECURSIVE IntOf(_, _, _)
IntOf(s, a, b) ==
    IF b < a THEN 0 ELSE 10 * IntOf(s, a, b - 1) + DigitVal(s[b])

\* first position at or after i that holds no digit (Len(s) + 1 when none)
RECURSIVE DigitsEnd(_, _)
DigitsEnd(s, i) ==
    IF i <= Len(s) /\ s[i] \in Digits THEN DigitsEnd(s, i + 1) ELSE i

\* position of the "]" closing a marker that starts at i, 0 when no marker
\* starts at i
MatchEnd(s, i) ==
    IF s[i] # "[" THEN 0
    ELSE LET j == DigitsEnd(s, i + 1)
         IN  IF j > i + 1 /\ j <= Len(s) /\ s[j] = "]" THEN j ELSE 0

\* position of the first "[" of s at or after i, 0 when there is none: the
\* scan passes over the characters at which no match can start
NextBracket(s, i) ==
    IF \E p \in i..Len(s) : s[p] = "["
    THEN CHOOSE p \in i..Len(s) :
            s[p] = "[" /\ \A q \in i..(p - 1) : s[q] # "["
    ELSE 0

\* re.finditer: the numbers of the markers of s from position i on, leftmost
\* first, matches not overlapping
RECURSIVE MarkersFrom(_, _)
MarkersFrom(s, i) ==
    LET p == NextBracket(s, i)
    IN  IF p = 0 THEN <<>>
        ELSE LET e == MatchEnd(s, p)
             IN  IF e = 0 THEN MarkersFrom(s, p + 1)
                 ELSE <<IntOf(s, p + 1, e - 1)>> \o MarkersFrom(s, e + 1)

FindMarkers(s) == MarkersFrom(s, 1)

----------------------------------------------------------------------------
(* The citation builder of generate *)

\* one vector-store hit at rank i: the document and its score.  The field
\* hit names the document object, as enumerate() numbers it
Hit(i, score) == [doc |-> [hit |-> i, page_content |-> <<"chunk", i>>], score |-> score]

HitList(scores) == [i \in 1..Len(scores) |-> Hit(i, scores[i])]

\* f"ref_{n}"
RefId(n) == <<"ref_", n>>

\* the test that skips a hit in the citation loop
SkipOnOrAboveThreshold(score, threshold) == score >= threshold

\* a test that skips the hits under the threshold
SkipRelevant(score, threshold) == score < threshold

SkipIrrelevant(score, threshold) == score > threshold

\* the citation built from a hit when acc is the list built so far
MakeCitationByRank(i, h, acc) ==
    [id |-> RefId(i), hit |-> h.doc.hit, relevance_score |-> h.score,
     content_preview |-> h.doc.page_content]

MakeCitation(i, h, acc) ==
    [id |-> RefId(Len(acc) + 1), hit |-> h.doc.hit, relevance_score |-> h.score,
     content_preview |-> h.doc.page_content]

\* the loop over enumerate(similar_documents_with_scores) that builds citations
RECURSIVE CitationLoop(_, _, _, _, _)
CitationLoop(hits, i, acc, threshold, maxc) ==
    IF i > Len(hits) THEN acc
    ELSE IF Len(acc) >= maxc THEN acc
    ELSE IF SkipIrrelevant(hits[i].score, threshold)
         THEN CitationLoop(hits, i + 1, acc, threshold, maxc)
    ELSE CitationLoop(hits, i + 1, Append(acc, MakeCitation(i, hits[i], acc)),
                      threshold, maxc)

\* the test that keeps a document in the second loop
KeepBelowThreshold(score, threshold) == score < threshold

KeepRelevant(score, threshold) == score <= threshold

\* the loop that builds filtered_documents
RECURSIVE FilterLoop(_, _, _, _, _)
FilterLoop(hits, i, acc, threshold, maxc) ==
    IF i > Len(hits) THEN acc
    ELSE IF Len(acc) >= maxc THEN acc
    ELSE IF KeepRelevant(hits[i].score, threshold)
         THEN FilterLoop(hits, i + 1, Append(acc, hits[i].doc), threshold, maxc)
    ELSE FilterLoop(hits, i + 1, acc, threshold, maxc)

Min(a, b) == IF a <= b THEN a ELSE b

\* both lists built without the relevance test
BuildListsNoThreshold(hits, threshold, maxc) ==
    [citations |-> CitationLoop(hits, 1, <<>>, MaxScore + 1, maxc),
     filtered_documents |-> FilterLoop(hits, 1, <<>>, MaxScore + 1, maxc)]

\* both lists after the length adjustment
BuildLists(hits, threshold, maxc) ==
    LET cs == CitationLoop(hits, 1, <<>>, threshold, maxc)
        fd == FilterLoop(hits, 1, <<>>, threshold, maxc)
        n  == Min(Len(cs), Len(fd))
    IN  IF Len(fd) # Len(cs)
        THEN [citations |-> Slice(cs, 1, n), filtered_documents |-> Slice(fd, 1, n)]
        ELSE [citations |-> cs, filtered_documents |-> fd]

\* the numbered reference block: reference i is "[i] {page_content}\n\n"
ContextWithCitations(fd) ==
    [i \in 1..Len(fd) |-> [marker |-> i, doc |-> fd[i]]]

\* sequences over S of length at most n
SeqsUpTo(S, n) == UNION {[1..k -> S] : k \in 0..n}

Scores == 0..MaxScore

NoBuild == <<>>

InitBuilderIdle ==
    /\ similar_documents_with_scores = <<>>
    /\ citations = NoBuild
    /\ filtered_documents = NoBuild
    /\ context_with_citations = NoBuild
    /\ built = FALSE

\* the part of generate from the retrieval to the reference block
BuildCitations ==
    /\ ~built
    /\ LET b == BuildLists(similar_documents_with_scores, relevance_threshold,
                           max_citations)
       IN  /\ citations' = b.citations
           /\ filtered_documents' = b.filtered_documents
           /\ context_with_citations' = ContextWithCitations(b.filtered_documents)
    /\ built' = TRUE
    /\ UNCHANGED <<similar_documents_with_scores, configVars, relayVars,
                   askVars, stripVars,
                   pageVars, dbVars>>

----------------------------------------------------------------------------
(* SteamCustomHandler *)

\* the values put on the queue: a str, a dict with "type" and "data", or None
StrMsg(text) == [py |-> "str", type |-> "", data |-> text]
TitleMsg(title) == [py |-> "dict", type |-> "title", data |-> title]
CitationsMsg(cs) == [py |-> "dict", type |-> "citations", data |-> cs]
StopSignal == [py |-> "None", type |-> "", data |-> <<>>]

\* a handler that starts with text left in it
NewHandlerWithLeftover ==
    [citations |-> <<>>, complete_response |-> <<"c">>, token_buffer |-> <<"c">>,
     title_processed |-> FALSE, buffering |-> TRUE]

\* __init__
NewHandler ==
    [citations |-> <<>>, complete_response |-> <<>>, token_buffer |-> <<>>,
     title_processed |-> FALSE, buffering |-> TRUE]

\* set_citations
SetCitations(h, cs) == [h EXCEPT !.citations = cs]

\* extract_title_from_response: found is FALSE where the code returns None
ExtractTitleFromResponse(text) ==
    IF text = <<>> THEN [found |-> FALSE, title |-> <<>>, clean |-> text]
    ELSE IF StartsWithTitle(text)
    THEN LET lines == Split1(text)
         IN  [found |-> TRUE,
              title |-> Strip(Slice(lines[1], TitlePrefixLen + 1, Len(lines[1]))),
              clean |-> IF Len(lines) > 1 THEN Strip(lines[2]) ELSE <<>>]
    ELSE [found |-> FALSE, title |-> <<>>, clean |-> text]

\* "if title:" is true of a title that is neither None nor empty
Truthy(t) == t.found /\ t.title # <<>>

\* re.sub(citation_pattern, replace_invalid_citation, text) from position i on
RECURSIVE CleanFrom(_, _, _)
CleanFrom(text, i, maxCitation) ==
    LET p == NextBracket(text, i)
    IN  IF p = 0 THEN Slice(text, i, Len(text))
        ELSE LET e == MatchEnd(text, p)
             IN  IF e = 0
                 THEN Slice(text, i, p) \o CleanFrom(text, p + 1, maxCitation)
                 ELSE LET n == IntOf(text, p + 1, e - 1)
                      IN  Slice(text, i, p - 1)
                          \o (IF 1 <= n /\ n <= maxCitation THEN Slice(text, p, e)
                              ELSE <<>>)
                          \o CleanFrom(text, e + 1, maxCitation)

\* clean_invalid_citations_from_complete_response
CleanInvalidCitationsFromCompleteResponse(cs, text) ==
    IF cs = <<>> THEN text ELSE CleanFrom(text, 1, Len(cs))

\* the set of the marker numbers of a text
MarkerNumbers(text) == {FindMarkers(text)[k] : k \in 1..Len(FindMarkers(text))}

\* the citations of cs whose numbers appear in text, by ascending number, the
\* k-th of them renamed ref_k
UsedSubset(cs, text) ==
    LET used == {n \in 1..Len(cs) : n \in MarkerNumbers(text)}
        nth(k) == CHOOSE n \in used : Cardinality({m \in used : m <= n}) = k
    IN  [k \in 1..Cardinality(used) |-> [cs[nth(k)] EXCEPT !.id = RefId(k)]]

\* extract_used_citations returning the referenced subset
ExtractUsedSubset(cs, text) ==
    IF cs = <<>> THEN <<>> ELSE UsedSubset(cs, text)

\* extract_used_citations
ExtractUsedCitations(cs, text) ==
    IF cs = <<>> THEN <<>>
    ELSE IF FindMarkers(text) = <<>> THEN <<>>
    ELSE cs

\* the test of on_llm_new_token with a buffer of BufferCap characters resolving
BufferResolvesAtCap(buf) ==
    LET parts == Split1(buf)
    IN  \/ Len(parts) > 1 /\ Len(Strip(parts[2])) > 0
        \/ Len(buf) >= BufferCap

\* the test of on_llm_new_token that ends the buffering
BufferResolves(buf) ==
    LET parts == Split1(buf)
    IN  \/ Len(parts) > 1 /\ Len(Strip(parts[2])) > 0
        \/ Len(buf) > BufferCap

\* on_llm_new_token: the handler after the call and the values it put, in order
OnLlmNewToken(h, token) ==
    LET h1 == [h EXCEPT !.complete_response = @ \o token]
    IN  IF h1.buffering /\ ~h1.title_processed
        THEN LET buf == h1.token_buffer \o token
                 resolved == [h1 EXCEPT !.title_processed = TRUE,
                                        !.buffering = FALSE,
                                        !.token_buffer = <<>>]
             IN  IF BufferResolves(buf)
                 THEN LET t == ExtractTitleFromResponse(buf)
                      IN  IF Truthy(t)
                          THEN [h |-> resolved,
                                puts |-> <<TitleMsg(t.title)>> \o
                                         (IF t.clean # <<>> THEN <<StrMsg(t.clean)>>
                                          ELSE <<>>)]
                          ELSE [h |-> resolved, puts |-> <<StrMsg(buf)>>]
                 ELSE [h |-> [h1 EXCEPT !.token_buffer = buf], puts |-> <<>>]
        ELSE [h |-> h1, puts |-> <<StrMsg(token)>>]

\* on_llm_end sending the citations without looking for markers
OnLlmEndWithoutMarkerCheck(h) ==
    LET r1 == IF h.complete_response # <<>> /\ h.citations # <<>>
              THEN CleanInvalidCitationsFromCompleteResponse(h.citations,
                                                             h.complete_response)
              ELSE h.complete_response
        t  == ExtractTitleFromResponse(r1)
        sendTitle == r1 # <<>> /\ ~h.title_processed /\ Truthy(t)
        r2 == IF sendTitle THEN t.clean ELSE r1
        available == IF h.citations # <<>> /\ r2 # <<>> THEN h.citations ELSE <<>>
    IN  [h |-> [h EXCEPT !.complete_response = r2],
         puts |-> (IF sendTitle THEN <<TitleMsg(t.title)>> ELSE <<>>) \o
                  (IF available # <<>> THEN <<CitationsMsg(available)>> ELSE <<>>) \o
                  <<StopSignal>>]

\* on_llm_end sending the title whether or not the streaming has sent it
OnLlmEndTitleAgain(h) ==
    LET r1 == IF h.complete_response # <<>> /\ h.citations # <<>>
              THEN CleanInvalidCitationsFromCompleteResponse(h.citations,
                                                             h.complete_response)
              ELSE h.complete_response
        t  == ExtractTitleFromResponse(r1)
        sendTitle == r1 # <<>> /\ Truthy(t)
        r2 == IF sendTitle THEN t.clean ELSE r1
        available == IF h.citations # <<>> /\ r2 # <<>> /\ FindMarkers(r2) # <<>>
                     THEN ExtractUsedCitations(h.citations, r2)
                     ELSE <<>>
    IN  [h |-> [h EXCEPT !.complete_response = r2],
         puts |-> (IF sendTitle THEN <<TitleMsg(t.title)>> ELSE <<>>) \o
                  (IF available # <<>> THEN <<CitationsMsg(available)>> ELSE <<>>) \o
                  <<StopSignal>>]

\* on_llm_end putting the terminator only after a title or citations message
OnLlmEndStopOnlyAfterOutput(h) ==
    LET r1 == IF h.complete_response # <<>> /\ h.citations # <<>>
              THEN CleanInvalidCitationsFromCompleteResponse(h.citations,
                                                             h.complete_response)
              ELSE h.complete_response
        t  == ExtractTitleFromResponse(r1)
        sendTitle == r1 # <<>> /\ ~h.title_processed /\ Truthy(t)
        r2 == IF sendTitle THEN t.clean ELSE r1
        available == IF h.citations # <<>> /\ r2 # <<>> /\ FindMarkers(r2) # <<>>
                     THEN ExtractUsedCitations(h.citations, r2)
                     ELSE <<>>
    IN  [h |-> [h EXCEPT !.complete_response = r2],
         puts |-> (IF sendTitle THEN <<TitleMsg(t.title)>> ELSE <<>>) \o
                  (IF available # <<>> THEN <<CitationsMsg(available)>> ELSE <<>>) \o
                  (IF sendTitle \/ available # <<>> THEN <<StopSignal>> ELSE <<>>)]

\* on_llm_end: the handler after the call and the values it put, in order
OnLlmEnd(h) ==
    LET r1 == IF h.complete_response # <<>> /\ h.citations # <<>>
              THEN CleanInvalidCitationsFromCompleteResponse(h.citations,
                                                             h.complete_response)
              ELSE h.complete_response
        t  == ExtractTitleFromResponse(r1)
        sendTitle == r1 # <<>> /\ ~h.title_processed /\ Truthy(t)
        r2 == IF sendTitle THEN t.clean ELSE r1
        available == IF h.citations # <<>> /\ r2 # <<>> /\ FindMarkers(r2) # <<>>
                     THEN ExtractUsedCitations(h.citations, r2)
                     ELSE <<>>
    IN  [h |-> [h EXCEPT !.complete_response = r2],
         puts |-> (IF sendTitle THEN <<TitleMsg(t.title)>> ELSE <<>>) \o
                  (IF available # <<>> THEN <<CitationsMsg(available)>> ELSE <<>>) \o
                  <<StopSignal>>]

----------------------------------------------------------------------------
(* The /ask endpoint: verify_api_key and stream *)

\* a header the request does not carry (Header(None))
NoHeader == "<absent>"

\* the configured internal API key, a non-empty string
API_KEY == "secret"

ApiKeyValues == {NoHeader, "", "wrong", API_KEY}
HeaderValues == {NoHeader, "", "v"}

\* truth value of a header in all([...]) and in "not x_api_key"
HeaderTruthy(v) == v # NoHeader /\ v # ""

\* the test of the health check, which looks at two headers only
IsAlbAuthTwoHeaders(data, identity, accesstoken) ==
    HeaderTruthy(data) /\ HeaderTruthy(identity)

\* is_aws_alb_authenticated
IsAwsAlbAuthenticated(data, identity, accesstoken) ==
    HeaderTruthy(data) /\ HeaderTruthy(identity) /\ HeaderTruthy(accesstoken)

\* the test that raises 403
InvalidApiKey(key) == ~HeaderTruthy(key) \/ key # API_KEY

\* the test on the query length with the bound included
QueryTooLongInclusive(length, maximum) == length >= maximum

\* the test that raises 400
QueryTooLong(length, maximum) == length > maximum

\* the /ask call before it is received
NoAsk ==
    [phase |-> "none", x_api_key |-> NoHeader, x_amzn_oidc_data |-> NoHeader,
     x_amzn_oidc_identity |-> NoHeader, x_amzn_oidc_accesstoken |-> NoHeader,
     query_len |-> 0, status |-> 0, detail |-> 0,
     sent_chat_history |-> <<>>, chat_history |-> <<>>]

\* a call that stream has accepted: valid key, empty query
AcceptedAsk ==
    [NoAsk EXCEPT !.phase = "accepted", !.x_api_key = API_KEY, !.status = 200]

InitAskAccepted == ask = [r \in Requests |-> AcceptedAsk]

QueryLengths ==
    {0, DefaultMaxQueryLength - 1, DefaultMaxQueryLength, DefaultMaxQueryLength + 1}

\* the (user, bot) pairs a client sends as chat_history of the request body
ChatPairs == {[user |-> "q1", bot |-> "a1"], [user |-> "q2", bot |-> "a2"]}

ChatHistories == SeqsUpTo(ChatPairs, MaxHistory)

\* the dependency verify_api_key of /ask
VerifyApiKey(r) ==
    /\ ask[r].phase = "none"
    /\ \E key \in ApiKeyValues, data \in HeaderValues, identity \in HeaderValues,
          accesstoken \in HeaderValues :
         LET seen == [ask[r] EXCEPT !.x_api_key = key,
                                    !.x_amzn_oidc_data = data,
                                    !.x_amzn_oidc_identity = identity,
                                    !.x_amzn_oidc_accesstoken = accesstoken]
         IN  ask' = [ask EXCEPT ![r] =
                 IF IsAwsAlbAuthenticated(data, identity, accesstoken)
                 THEN [seen EXCEPT !.phase = "verified"]
                 ELSE IF InvalidApiKey(key)
                 THEN [seen EXCEPT !.phase = "forbidden", !.status = 403]
                 ELSE [seen EXCEPT !.phase = "verified"]]
    /\ UNCHANGED <<configVars, builderVars, relayVars, stripVars,
                   pageVars, dbVars>>

\* stream: the length check, the assignment query_request.chat_history = [],
\* then StreamingResponse(response_generator(...))
Stream(r) ==
    /\ ask[r].phase = "verified"
    /\ \E length \in QueryLengths, history \in ChatHistories :
         ask' = [ask EXCEPT ![r] =
                 IF QueryTooLong(length, DefaultMaxQueryLength)
                 THEN [@ EXCEPT !.phase = "too_long", !.query_len = length,
                                !.status = 400, !.detail = DefaultMaxQueryLength,
                                !.sent_chat_history = history,
                                !.chat_history = history]
                 ELSE [@ EXCEPT !.phase = "accepted", !.query_len = length,
                                !.status = 200,
                                !.sent_chat_history = history,
                                !.chat_history = <<>>]]
    /\ UNCHANGED <<configVars, builderVars, relayVars, stripVars,
                   pageVars, dbVars>>

----------------------------------------------------------------------------
(* The source and page of a citation, from the metadata of its document *)

\* the values a metadata key holds: a string, an integer, None, or no entry
PyStr(t) == [py |-> "str", text |-> t, int |-> 0]
PyInt(n) == [py |-> "int", text |-> <<>>, int |-> n]
PyNone == [py |-> "None", text |-> <<>>, int |-> 0]
Absent == [py |-> "absent", text |-> <<>>, int |-> 0]

\* dict.get(key, default)
MetadataGet(value, default) == IF value = Absent THEN default ELSE value

UnknownSource == PyStr(<<"U", "n", "k", "n", "o", "w", "n">>)

\* str.lower on the letters of the sources
LowerChar(c) ==
    CASE c = "A" -> "a" [] c = "B" -> "b" [] c = "C" -> "c" [] c = "D" -> "d"
      [] c = "F" -> "f" [] c = "P" -> "p" [] c = "S" -> "s" [] c = "V" -> "v"
      [] OTHER -> c

StrLower(t) == [i \in 1..Len(t) |-> LowerChar(t[i])]

EndsWith(t, suffix) ==
    /\ Len(t) >= Len(suffix)
    /\ SubSeq(t, Len(t) - Len(suffix) + 1, Len(t)) = suffix

StartsWith(t, prefix) ==
    /\ Len(t) >= Len(prefix)
    /\ SubSeq(t, 1, Len(prefix)) = prefix

DotPdf == <<".", "p", "d", "f">>
DotCsv == <<".", "c", "s", "v">>

\* the citation keeps the page of the loader
CitationFieldsPageAsLoaded(metadata) ==
    LET source == MetadataGet(metadata.source,
                              MetadataGet(metadata.file_path, UnknownSource)).text
        page == MetadataGet(metadata.page, PyNone)
        local_path == IF StartsWith(source, <<".", "/">>) \/ StartsWith(source, <<".", "\\">>)
                      THEN SubSeq(source, 3, Len(source))
                      ELSE source
    IN  [done |-> TRUE,
         local_path |-> local_path,
         page |-> IF EndsWith(StrLower(local_path), DotCsv) THEN PyNone ELSE page]

\* source, page and local_path of the citation of an accepted hit
CitationFields(metadata) ==
    LET source == MetadataGet(metadata.source,
                              MetadataGet(metadata.file_path, UnknownSource)).text
        page == MetadataGet(metadata.page, PyNone)
        adjusted == IF page # PyNone /\ page.py = "int"
                       /\ EndsWith(StrLower(source), DotPdf)
                    THEN PyInt(page.int + 1)
                    ELSE page
        local_path == IF StartsWith(source, <<".", "/">>) \/ StartsWith(source, <<".", "\\">>)
                      THEN SubSeq(source, 3, Len(source))
                      ELSE source
    IN  [done |-> TRUE,
         local_path |-> local_path,
         page |-> IF EndsWith(StrLower(local_path), DotCsv) THEN PyNone ELSE adjusted]

NoCited == [done |-> FALSE, local_path |-> <<>>, page |-> PyNone]

\* the sources, paths and pages the loaders leave in the metadata
Sources ==
    {<<"a", ".", "p", "d", "f">>, <<"A", ".", "P", "D", "F">>,
     <<".", "/", "a", ".", "p", "d", "f">>, <<".", "\\", "a", ".", "p", "d", "f">>,
     <<"b", ".", "c", "s", "v">>, <<"B", ".", "C", "s", "v">>,
     <<".", "/", "b", ".", "c", "s", "v">>, <<"c", ".", "t", "x", "t">>,
     <<"p", "d", "f">>}

FilePaths == {<<"d", ".", "p", "d", "f">>, <<"e", ".", "c", "s", "v">>}

Pages == {PyInt(n) : n \in 0..MaxPage} \union {PyStr(<<"3">>), PyNone, Absent}

Metadatas ==
    [source : {PyStr(t) : t \in Sources} \union {Absent},
     file_path : {PyStr(t) : t \in FilePaths} \union {Absent},
     page : Pages]

InitPageIdle ==
    /\ doc_metadata = [source |-> Absent, file_path |-> Absent, page |-> Absent]
    /\ cited = NoCited

\* the metadata part of the citation loop, for one accepted hit
CiteMetadata ==
    /\ ~cited.done
    /\ cited' = CitationFields(doc_metadata)
    /\ UNCHANGED <<doc_metadata, configVars, builderVars, relayVars, askVars,
                   stripVars, dbVars>>

----------------------------------------------------------------------------
(* The conversation store of DatabaseManager *)

UserIds == {"u1", "u2"}
Titles == {"t1", "t2"}
Contents == {"c1"}
ConversationIds == 1..NumConversations
MessageIds == 1..NumMessageIds

\* the conversation dicts a caller passes to save_conversation
PayloadMessages == SeqsUpTo([id : MessageIds, content : Contents], MaxMessages)

ConversationPayloads == [id : ConversationIds, title : Titles, messages : PayloadMessages]

\* the loop of INSERT INTO messages: it stops at the first id that is taken
RECURSIVE InsertMessages(_, _, _, _)
InsertMessages(rows, msgs, i, conversation_id) ==
    IF i > Len(msgs) THEN [ok |-> TRUE, messages |-> rows]
    ELSE IF \E row \in rows : row.id = msgs[i].id
    THEN [ok |-> FALSE, messages |-> rows]
    ELSE InsertMessages(rows \union {[id |-> msgs[i].id,
                                      conversation_id |-> conversation_id,
                                      content |-> msgs[i].content]},
                        msgs, i + 1, conversation_id)

\* the statements of save_conversation up to the commit or the exception
SaveStatements(convs, msgs, conversation, user_id) ==
    LET exists == \E c \in convs : c.id = conversation.id
        updated == IF exists
                   THEN {IF c.id = conversation.id
                         THEN [c EXCEPT !.title = conversation.title]
                         ELSE c : c \in convs}
                   ELSE convs \union {[id |-> conversation.id, user_id |-> user_id,
                                       title |-> conversation.title]}
        kept == IF exists
                THEN {m \in msgs : m.conversation_id # conversation.id}
                ELSE msgs
        inserted == InsertMessages(kept, conversation.messages, 1, conversation.id)
    IN  [ok |-> inserted.ok, conversations |-> updated,
         messages |-> inserted.messages]

\* save_conversation whose statements stay when one of them fails
SaveWithoutRollback(convs, msgs, conversation, user_id) ==
    SaveStatements(convs, msgs, conversation, user_id)

\* save_conversation: commit, or rollback on an exception
SaveTransaction(convs, msgs, conversation, user_id) ==
    LET done == SaveStatements(convs, msgs, conversation, user_id)
    IN  IF done.ok THEN done
        ELSE [ok |-> FALSE, conversations |-> convs, messages |-> msgs]

NoCall ==
    [op |-> "none", user_id |-> "", conversation_id |-> 0, title |-> "",
     sent |-> <<>>, ok |-> FALSE,
     returned_conversations |-> {}, returned_messages |-> {}]

InitDbIdle ==
    /\ conversations = {}
    /\ messages = {}
    /\ db_call = NoCall

sideVars == <<configVars, builderVars, relayVars, askVars, stripVars, pageVars>>

SaveConversation(user_id, conversation) ==
    LET done == SaveTransaction(conversations, messages, conversation, user_id)
    IN  /\ conversations' = done.conversations
        /\ messages' = done.messages
        /\ db_call' = [NoCall EXCEPT !.op = "save", !.user_id = user_id,
                                     !.conversation_id = conversation.id,
                                     !.title = conversation.title,
                                     !.sent = conversation.messages,
                                     !.ok = done.ok]
        /\ UNCHANGED sideVars

GetConversations(user_id) ==
    LET rows == {c \in conversations : c.user_id = user_id}
    IN  /\ db_call' = [NoCall EXCEPT
                !.op = "get_conversations", !.user_id = user_id, !.ok = TRUE,
                !.returned_conversations = rows,
                !.returned_messages =
                    {m \in messages : \E c \in rows : m.conversation_id = c.id}]
        /\ UNCHANGED <<conversations, messages, sideVars>>

GetConversation(conversation_id, user_id) ==
    LET rows == {c \in conversations :
                    c.id = conversation_id /\ c.user_id = user_id}
    IN  /\ db_call' = [NoCall EXCEPT
                !.op = "get_conversation", !.user_id = user_id,
                !.conversation_id = conversation_id, !.ok = (rows # {}),
                !.returned_conversations = rows,
                !.returned_messages =
                    IF rows = {} THEN {}
                    ELSE {m \in messages : m.conversation_id = conversation_id}]
        /\ UNCHANGED <<conversations, messages, sideVars>>

DeleteConversation(conversation_id, user_id) ==
    LET owned == \E c \in conversations :
                    c.id = conversation_id /\ c.user_id = user_id
    IN  /\ messages' = IF owned
                       THEN {m \in messages : m.conversation_id # conversation_id}
                       ELSE messages
        /\ conversations' = IF owned
                            THEN {c \in conversations : c.id # conversation_id}
                            ELSE conversations
        /\ db_call' = [NoCall EXCEPT !.op = "delete", !.user_id = user_id,
                                     !.conversation_id = conversation_id,
                                     !.ok = owned]
        /\ UNCHANGED sideVars

ClearAllConversations(user_id) ==
    LET conversation_ids == {c.id : c \in {d \in conversations : d.user_id = user_id}}
    IN  /\ messages' = {m \in messages : m.conversation_id \notin conversation_ids}
        /\ conversations' = {c \in conversations : c.user_id # user_id}
        /\ db_call' = [NoCall EXCEPT !.op = "clear", !.user_id = user_id,
                                     !.ok = TRUE]
        /\ UNCHANGED sideVars

----------------------------------------------------------------------------
(* Runs of the invalid-citation stripping step *)

\* a citation list of n citations
CitationsOfCount(n) ==
    CitationLoop(HitList([i \in 1..n |-> 0]), 1, <<>>, 0, n)

StripAlphabet == {"[", "]", "7", "9", "a"}
StripCounts == {0, 3, 7}

InitStripIdle ==
    /\ strip_text = <<>>
    /\ strip_citations = <<>>
    /\ stripped = <<>>
    /\ stripped_again = <<>>

\* clean_invalid_citations_from_complete_response on the text
StripOnce ==
    /\ stripped = <<>>
    /\ stripped' = <<CleanInvalidCitationsFromCompleteResponse(strip_citations,
                                                               strip_text)>>
    /\ UNCHANGED <<strip_text, strip_citations, stripped_again,
                   configVars, builderVars, relayVars, askVars,
                   pageVars, dbVars>>

\* clean_invalid_citations_from_complete_response on its own result
StripAgain ==
    /\ stripped # <<>>
    /\ stripped_again = <<>>
    /\ stripped_again' = <<CleanInvalidCitationsFromCompleteResponse(strip_citations,
                                                                     stripped[1])>>
    /\ UNCHANGED <<strip_text, strip_citations, stripped,
                   configVars, builderVars, relayVars, askVars,
                   pageVars, dbVars>>

----------------------------------------------------------------------------
(* The relay: streamer_queue, the generation threads, the response generators *)

\* Queue.put at the other end of the queue
QPutFront(q, e) == <<e>> \o q

\* Queue.put
QPut(q, e) == Append(q, e)

\* the puts of one callback, in order
RECURSIVE PutAll(_, _)
PutAll(q, es) == IF es = <<>> THEN q ELSE PutAll(QPut(q, Head(es)), Tail(es))

Tagged(r, vals) == [i \in 1..Len(vals) |-> [req |-> r, val |-> vals[i]]]

\* "No relevant documents found."
NoDocumentsText ==
    <<"N", "o", " ", "r", "e", "l", "e", "v", "a", "n", "t", " ",
      "d", "o", "c", "u", "m", "e", "n", "t", "s", " ", "f", "o", "u", "n", "d", ".">>

\* the hit lists the vector store returns in the relay runs
RelayHitLists == {<<>>, HitList(<<6>>), HitList(<<2, 6, 3>>)}

\* the tokens the model generates in the relay runs
TokTitle == TitlePrefix \o <<"H">>
TokLine == <<"\n", "b", "[", "1", "]", "[", "5", "]">>
TokPlain == <<"c", "[", "2", "]">>
Tokens == {TokTitle, TokLine, TokPlain}

\* more tokens for the runs of one request: a marker no citation backs, a
\* title line longer than the buffer cap, the end of a title line with body
TokBad == <<"d", "[", "7", "]">>
TokLong == TitlePrefix \o [i \in 1..(BufferCap - TitlePrefixLen + 1) |-> "x"]
TokTail == <<"y", "\n", "z">>
\* and: a title that holds a marker, a text of exactly the buffer cap, a body
\* line that ends in a space
TokTitleCite == TitlePrefix \o <<"H", "[", "1", "]">>
TokHundred == [i \in 1..BufferCap |-> "x"]
TokSpaced == <<"\n", "z", " ">>
SingleTokens ==
    Tokens \union {TokBad, TokLong, TokTail, TokTitleCite, TokHundred, TokSpaced}

\* "\n".join(f"User: {msg['user']}\nBot: {msg['bot']}" for msg in chat_history):
\* the lines of the rendered history
ChatContext(chat_history) ==
    [i \in 1..(2 * Len(chat_history)) |->
        IF i % 2 = 1 THEN <<"User: ", chat_history[(i + 1) \div 2].user>>
                     ELSE <<"Bot: ", chat_history[i \div 2].bot>>]

\* ", ".join([f"[{i+1}]" for i in range(num_references)]): the markers named
AvailableCitations(num_references) == [i \in 1..num_references |-> i]

\* the sections of the prompt template, in the order of the text
PromptSections ==
    <<"CRITICAL CITATION RULES", "RESPONSE INSTRUCTIONS", "NUMBERED REFERENCES",
      "CHAT HISTORY", "QUESTION", "ANSWER">>

\* the prompt f-string: the values it interpolates and the markers it names
Prompt(fd, chat_history, query_len) ==
    LET num_references == Len(fd)
        available_citations == AvailableCitations(num_references)
    IN  [sections |-> PromptSections,
         num_references |-> num_references,
         available_citations |-> available_citations,
         not_higher_than |-> num_references,
         never_use |-> <<num_references + 1, num_references + 2>>,
         example |-> <<1, 2>>,
         context_with_citations |-> ContextWithCitations(fd),
         chat_context |-> ChatContext(chat_history),
         query_len |-> query_len]

NoPrompt ==
    [sections |-> <<>>, num_references |-> 0, available_citations |-> <<>>,
     not_higher_than |-> 0, never_use |-> <<>>, example |-> <<>>,
     context_with_citations |-> <<>>, chat_context |-> <<>>, query_len |-> 0]

InitRelay ==
    /\ prompt = [r \in Requests |-> NoPrompt]
    /\ streamer_queue = <<>>
    /\ gen = [r \in Requests |-> "unstarted"]
    /\ handler = [r \in Requests |-> NewHandler]
    /\ similar = [r \in Requests |-> <<>>]
    /\ ntokens = [r \in Requests |-> 0]
    /\ response = [r \in Requests |-> <<>>]
    /\ llm_invoked = [r \in Requests |-> FALSE]
    /\ con = [r \in Requests |-> "idle"]
    /\ put = [r \in Requests |-> <<>>]
    /\ taken = [r \in Requests |-> <<>>]
    /\ frames = [r \in Requests |-> <<>>]

\* a queue of maxsize 1: put waits while it holds a value
QueueFullAtOne(q) == Len(q) >= 1

\* the condition under which Queue.put waits; Queue() has maxsize 0, which
\* stands for no limit
QueueFull(q) == QueueMaxSize > 0 /\ Len(q) >= QueueMaxSize

\* the values vals are put by the thread of request r, each put returning
\* without waiting
Puts(r, vals) ==
    /\ \A k \in 1..Len(vals) :
          ~QueueFull(PutAll(streamer_queue, SubSeq(Tagged(r, vals), 1, k - 1)))
    /\ streamer_queue' = PutAll(streamer_queue, Tagged(r, vals))
    /\ put' = [put EXCEPT ![r] = @ \o vals]

\* /ask returns StreamingResponse(response_generator(...)): the generator starts
Arrive(r) ==
    /\ ask[r].phase = "accepted"
    /\ con[r] = "idle"
    /\ con' = [con EXCEPT ![r] = "purging"]
    /\ UNCHANGED <<streamer_queue, gen, handler, similar, ntokens, response, llm_invoked,
                   put, taken, frames, configVars, builderVars,
                   askVars, stripVars,
                   prompt, pageVars, dbVars>>

\* one turn of "while not streamer_queue.empty(): streamer_queue.get_nowait()"
PurgeStep(r) ==
    /\ con[r] = "purging"
    /\ streamer_queue # <<>>
    /\ streamer_queue' = Tail(streamer_queue)
    /\ UNCHANGED <<gen, handler, similar, ntokens, response, llm_invoked, con,
                   put, taken, frames, configVars, builderVars,
                   askVars, stripVars,
                   prompt, pageVars, dbVars>>

\* streamer_queue.empty() is true: the purge loop ends
PurgeExit(r) ==
    /\ con[r] = "purging"
    /\ streamer_queue = <<>>
    /\ con' = [con EXCEPT ![r] = "starting"]
    /\ UNCHANGED <<streamer_queue, gen, handler, similar, ntokens, response, llm_invoked,
                   put, taken, frames, configVars, builderVars,
                   askVars, stripVars,
                   prompt, pageVars, dbVars>>

\* start_generation: the thread starts; generate creates its handler
StartGeneration(r) ==
    /\ con[r] = "starting"
    /\ con' = [con EXCEPT ![r] = "waiting"]
    /\ gen' = [gen EXCEPT ![r] = "running"]
    /\ handler' = [handler EXCEPT ![r] = NewHandler]
    /\ UNCHANGED <<streamer_queue, similar, ntokens, response, llm_invoked,
                   put, taken, frames, configVars, builderVars,
                   askVars, stripVars,
                   prompt, pageVars, dbVars>>

\* generate: the retrieval raises; the thread dies
GenerateRetrievalFails(r) ==
    /\ gen[r] = "running"
    /\ gen' = [gen EXCEPT ![r] = "failed"]
    /\ UNCHANGED <<streamer_queue, handler, similar, ntokens, response, llm_invoked, con,
                   put, taken, frames, configVars, builderVars,
                   askVars, stripVars,
                   prompt, pageVars, dbVars>>

\* generate: the retrieval returns no hit
GenerateNoDocuments(r) ==
    /\ gen[r] = "running"
    /\ <<>> \in RelayHitLists
    /\ similar' = [similar EXCEPT ![r] = <<>>]
    /\ handler' = [handler EXCEPT ![r] =
                     SetCitations(@, BuildLists(<<>>, relevance_threshold,
                                                max_citations).citations)]
    /\ Puts(r, <<StrMsg(NoDocumentsText)>>)
    /\ gen' = [gen EXCEPT ![r] = "done"]
    /\ UNCHANGED <<ntokens, response, llm_invoked, con, taken, frames, configVars, builderVars,
                   askVars, stripVars,
                   prompt, pageVars, dbVars>>

\* generate: the retrieval returns hits; the prompt is built and llm.invoke called
GenerateInvoke(r) ==
    /\ gen[r] = "running"
    /\ \E hits \in RelayHitLists \ {<<>>} :
         /\ similar' = [similar EXCEPT ![r] = hits]
         /\ handler' = [handler EXCEPT ![r] =
                          SetCitations(@, BuildLists(hits, relevance_threshold,
                                                     max_citations).citations)]
         /\ prompt' = [prompt EXCEPT ![r] =
                         Prompt(BuildLists(hits, relevance_threshold,
                                           max_citations).filtered_documents,
                                ask[r].chat_history, ask[r].query_len)]
    /\ llm_invoked' = [llm_invoked EXCEPT ![r] = TRUE]
    /\ gen' = [gen EXCEPT ![r] = "streaming"]
    /\ UNCHANGED <<streamer_queue, ntokens, response, con, put, taken, frames,
                   configVars, builderVars,
                   askVars, stripVars,
                   pageVars, dbVars>>

\* the model generates one of the tokens of vocabulary: on_llm_new_token
LlmToken(r, vocabulary) ==
    /\ gen[r] = "streaming"
    /\ ntokens[r] < MaxTokens
    /\ \E token \in vocabulary :
         LET res == OnLlmNewToken(handler[r], token)
         IN  /\ handler' = [handler EXCEPT ![r] = res.h]
             /\ Puts(r, res.puts)
             /\ response' = [response EXCEPT ![r] = @ \o token]
    /\ ntokens' = [ntokens EXCEPT ![r] = @ + 1]
    /\ UNCHANGED <<gen, similar, llm_invoked, con, taken, frames,
                   configVars, builderVars,
                   askVars, stripVars,
                   prompt, pageVars, dbVars>>

LlmNewToken(r) == LlmToken(r, Tokens)

\* the same callback with the wider vocabulary of the single-request runs
LlmNewTokenSingle(r) == LlmToken(r, SingleTokens)

\* the model completes: on_llm_end, then generate returns
LlmEnd(r) ==
    /\ gen[r] = "streaming"
    /\ LET res == OnLlmEnd(handler[r])
       IN  /\ handler' = [handler EXCEPT ![r] = res.h]
           /\ Puts(r, res.puts)
    /\ gen' = [gen EXCEPT ![r] = "done"]
    /\ UNCHANGED <<similar, ntokens, response, llm_invoked, con, taken, frames,
                   configVars, builderVars,
                   askVars, stripVars,
                   prompt, pageVars, dbVars>>

\* llm.invoke raises: the handler has no on_llm_error; the thread dies
LlmError(r) ==
    /\ gen[r] = "streaming"
    /\ gen' = [gen EXCEPT ![r] = "failed"]
    /\ UNCHANGED <<streamer_queue, handler, similar, ntokens, response, llm_invoked, con,
                   put, taken, frames, configVars, builderVars,
                   askVars, stripVars,
                   prompt, pageVars, dbVars>>

\* the wire frame response_generator yields for a value, <<>> when it yields none
FramesOf(value) ==
    IF value.py = "dict" /\ value.type = "citations"
    THEN <<[type |-> value.type, data |-> value.data]>>
    ELSE IF value.py = "str"
    THEN <<[type |-> "token", data |-> value.data]>>
    ELSE <<>>

\* one turn of the loop of response_generator: streamer_queue.get() returns a
\* value and the loop yields its frame, or ends on None
ConsumerGet(r) ==
    /\ con[r] = "waiting"
    /\ streamer_queue # <<>>
    /\ LET e == Head(streamer_queue)
       IN  /\ streamer_queue' = Tail(streamer_queue)
           /\ taken' = [taken EXCEPT ![r] = Append(@, e)]
           /\ IF e.val.py = "None"
              THEN /\ con' = [con EXCEPT ![r] = "ended"]
                   /\ UNCHANGED frames
              ELSE /\ frames' = [frames EXCEPT ![r] = @ \o FramesOf(e.val)]
                   /\ UNCHANGED con
    /\ UNCHANGED <<gen, handler, similar, ntokens, response, llm_invoked, put,
                   configVars, builderVars,
                   askVars, stripVars,
                   prompt, pageVars, dbVars>>

Init ==
    /\ relevance_threshold = DefaultRelevanceThreshold
    /\ max_citations = DefaultMaxCitations
    /\ InitBuilderIdle
    /\ InitRelay
    /\ InitAskAccepted
    /\ InitStripIdle
    /\ InitPageIdle
    /\ InitDbIdle

Next ==
    \E r \in Requests :
        \/ Arrive(r)
        \/ PurgeStep(r)
        \/ PurgeExit(r)
        \/ StartGeneration(r)
        \/ GenerateRetrievalFails(r)
        \/ GenerateNoDocuments(r)
        \/ GenerateInvoke(r)
        \/ LlmNewToken(r)
        \/ LlmEnd(r)
        \/ LlmError(r)
        \/ ConsumerGet(r)

Spec == Init /\ [][Next]_vars

\* the builder runs: any hit list, any configuration
InitBuilder ==
    /\ relevance_threshold \in Scores
    /\ max_citations \in 1..MaxCitationsConfig
    /\ \E scores \in SeqsUpTo(Scores, MaxHits) :
          similar_documents_with_scores = HitList(scores)
    /\ citations = NoBuild
    /\ filtered_documents = NoBuild
    /\ context_with_citations = NoBuild
    /\ built = FALSE
    /\ InitRelay
    /\ InitAskAccepted
    /\ InitStripIdle
    /\ InitPageIdle
    /\ InitDbIdle

NextBuilder == BuildCitations

SpecBuilder == InitBuilder /\ [][NextBuilder]_vars

\* one request alone on the server: the queue is empty when it arrives, so the
\* purge loop has no turn to take
InitSingle == Init

NextSingle ==
    \E r \in {1} :
        \/ Arrive(r)
        \/ PurgeExit(r)
        \/ StartGeneration(r)
        \/ GenerateRetrievalFails(r)
        \/ GenerateNoDocuments(r)
        \/ GenerateInvoke(r)
        \/ LlmNewTokenSingle(r)
        \/ LlmEnd(r)
        \/ LlmError(r)
        \/ ConsumerGet(r)

SpecSingle == InitSingle /\ [][NextSingle]_vars

\* one /ask call from its headers to the end of its response
InitAsk ==
    /\ relevance_threshold = DefaultRelevanceThreshold
    /\ max_citations = DefaultMaxCitations
    /\ InitBuilderIdle
    /\ InitRelay
    /\ ask = [r \in Requests |-> NoAsk]
    /\ InitStripIdle
    /\ InitPageIdle
    /\ InitDbIdle

NextAsk ==
    \E r \in {1} :
        \/ VerifyApiKey(r)
        \/ Stream(r)
        \/ Arrive(r)
        \/ PurgeExit(r)
        \/ StartGeneration(r)
        \/ GenerateRetrievalFails(r)
        \/ GenerateNoDocuments(r)
        \/ GenerateInvoke(r)
        \/ LlmNewToken(r)
        \/ LlmEnd(r)
        \/ LlmError(r)
        \/ ConsumerGet(r)

SpecAsk == InitAsk /\ [][NextAsk]_vars

\* requests served one after the other: a request arrives only when the
\* generation thread of every earlier request has ended
ArriveAfter(r) ==
    /\ \A q \in Requests \ {r} : con[q] = "idle" \/ gen[q] \in {"done", "failed"}
    /\ Arrive(r)

NextSerial ==
    \E r \in Requests :
        \/ ArriveAfter(r)
        \/ PurgeStep(r)
        \/ PurgeExit(r)
        \/ StartGeneration(r)
        \/ GenerateRetrievalFails(r)
        \/ GenerateNoDocuments(r)
        \/ GenerateInvoke(r)
        \/ LlmNewToken(r)
        \/ LlmEnd(r)
        \/ LlmError(r)
        \/ ConsumerGet(r)

SpecSerial == Init /\ [][NextSerial]_vars

\* requests on one event loop: response_generator runs from its purge to
\* start_generation without an await, so no other generator starts in between,
\* while the generation threads and the queue reads run in parallel with it
ArriveOnLoop(r) ==
    /\ \A q \in Requests \ {r} : con[q] \notin {"purging", "starting"}
    /\ Arrive(r)

NextLoop ==
    \E r \in Requests :
        \/ ArriveOnLoop(r)
        \/ PurgeStep(r)
        \/ PurgeExit(r)
        \/ StartGeneration(r)
        \/ GenerateRetrievalFails(r)
        \/ GenerateNoDocuments(r)
        \/ GenerateInvoke(r)
        \/ LlmNewToken(r)
        \/ LlmEnd(r)
        \/ LlmError(r)
        \/ ConsumerGet(r)

SpecLoop == Init /\ [][NextLoop]_vars

\* the generation threads of two requests running at the same time
PairTokens == {TokLine}

LlmNewTokenPair(r) == LlmToken(r, PairTokens)

NextPair ==
    \E r \in {1, 2} :
        \/ ArriveOnLoop(r)
        \/ PurgeStep(r)
        \/ PurgeExit(r)
        \/ StartGeneration(r)
        \/ GenerateRetrievalFails(r)
        \/ GenerateNoDocuments(r)
        \/ GenerateInvoke(r)
        \/ LlmNewTokenPair(r)
        \/ LlmEnd(r)
        \/ LlmError(r)
        \/ ConsumerGet(r)

SpecPair == Init /\ [][NextPair]_vars

\* the client disconnects: the server cancels response_generator at the await
\* it is suspended in.  Suspended in "await asyncio.to_thread(streamer_queue.get)"
\* the generator ends but the get of the worker thread cannot be cancelled and
\* stays blocked on the queue; suspended in the yield or in asyncio.sleep, which
\* follow a get, no read is left
Disconnect(r) ==
    /\ con[r] = "waiting"
    /\ \/ con' = [con EXCEPT ![r] = "abandoned"]
       \/ /\ taken[r] # <<>>
          /\ con' = [con EXCEPT ![r] = "closed"]
    /\ UNCHANGED <<streamer_queue, gen, handler, similar, ntokens, response,
                   llm_invoked, put, taken, frames, configVars, builderVars,
                   askVars, stripVars,
                   prompt, pageVars, dbVars>>

\* the blocked streamer_queue.get() of a cancelled generator returns: the value
\* is taken off the queue and dropped
AbandonedGet(r) ==
    /\ con[r] = "abandoned"
    /\ streamer_queue # <<>>
    /\ streamer_queue' = Tail(streamer_queue)
    /\ taken' = [taken EXCEPT ![r] = Append(@, Head(streamer_queue))]
    /\ con' = [con EXCEPT ![r] = "closed"]
    /\ UNCHANGED <<gen, handler, similar, ntokens, response, llm_invoked, put,
                   frames, configVars, builderVars, askVars, stripVars,
                   prompt, pageVars, dbVars>>

\* one request whose client may disconnect
NextDisconnect ==
    \E r \in {1} :
        \/ Arrive(r)
        \/ PurgeExit(r)
        \/ StartGeneration(r)
        \/ GenerateRetrievalFails(r)
        \/ GenerateNoDocuments(r)
        \/ GenerateInvoke(r)
        \/ LlmNewToken(r)
        \/ LlmEnd(r)
        \/ LlmError(r)
        \/ ConsumerGet(r)
        \/ Disconnect(r)
        \/ AbandonedGet(r)

\* the event loop runs the generator, the generation thread runs to its end and
\* a blocked get returns once the queue holds a value
FairDisconnect ==
    /\ WF_vars(PurgeExit(1))
    /\ WF_vars(StartGeneration(1))
    /\ WF_vars(GenerateRetrievalFails(1) \/ GenerateNoDocuments(1)
                 \/ GenerateInvoke(1))
    /\ WF_vars(LlmError(1) \/ LlmEnd(1) \/ LlmNewToken(1))
    /\ WF_vars(ConsumerGet(1))
    /\ WF_vars(AbandonedGet(1))

SpecDisconnect == Init /\ [][NextDisconnect]_vars /\ FairDisconnect

\* the stripping step on every text over the alphabet, for each citation count
InitStrip ==
    /\ relevance_threshold = DefaultRelevanceThreshold
    /\ max_citations = DefaultMaxCitations
    /\ InitBuilderIdle
    /\ InitRelay
    /\ InitAskAccepted
    /\ strip_text \in SeqsUpTo(StripAlphabet, MaxTextLen)
    /\ strip_citations \in {CitationsOfCount(n) : n \in StripCounts}
    /\ stripped = <<>>
    /\ stripped_again = <<>>
    /\ InitPageIdle
    /\ InitDbIdle

NextStrip == StripOnce \/ StripAgain

SpecStrip == InitStrip /\ [][NextStrip]_vars


\* the metadata of one accepted hit, over the sources and pages of the loaders
InitPage ==
    /\ relevance_threshold = DefaultRelevanceThreshold
    /\ max_citations = DefaultMaxCitations
    /\ InitBuilderIdle
    /\ InitRelay
    /\ InitAskAccepted
    /\ InitStripIdle
    /\ doc_metadata \in Metadatas
    /\ cited = NoCited
    /\ InitDbIdle

NextPage == CiteMetadata

SpecPage == InitPage /\ [][NextPage]_vars

\* calls of the manager by two users on an empty store
InitDb ==
    /\ relevance_threshold = DefaultRelevanceThreshold
    /\ max_citations = DefaultMaxCitations
    /\ InitBuilderIdle
    /\ InitRelay
    /\ InitAskAccepted
    /\ InitStripIdle
    /\ InitPageIdle
    /\ InitDbIdle

NextDb ==
    \E user_id \in UserIds :
        \/ \E conversation \in ConversationPayloads : SaveConversation(user_id, conversation)
        \/ GetConversations(user_id)
        \/ \E id \in ConversationIds : GetConversation(id, user_id)
        \/ \E id \in ConversationIds : DeleteConversation(id, user_id)
        \/ ClearAllConversations(user_id)

SpecDb == InitDb /\ [][NextDb]_vars

----------------------------------------------------------------------------
(* Helpers of the properties *)

Finished(r) == gen[r] \in {"done", "failed"}

\* the message kind of a queued value
KindOf(value) ==
    IF value.py = "None" THEN "end"
    ELSE IF value.py = "str" THEN "token"
    ELSE value.type

Kinds(vals) == [i \in 1..Len(vals) |-> KindOf(vals[i])]

CountKind(ks, k) == Cardinality({i \in 1..Len(ks) : ks[i] = k})

\* equality of two queued values, payloads compared only between equal kinds
SameValue(a, b) == KindOf(a) = KindOf(b) /\ a.data = b.data

ValuesOf(entries) == [i \in 1..Len(entries) |-> entries[i].val]

SameValues(xs, ys) ==
    /\ Len(xs) = Len(ys)
    /\ \A i \in 1..Len(xs) : SameValue(xs[i], ys[i])

\* the entries of the queue that the thread of request r put
RECURSIVE OfRequest(_, _)
OfRequest(entries, r) ==
    IF entries = <<>> THEN <<>>
    ELSE (IF Head(entries).req = r THEN <<Head(entries)>> ELSE <<>>)
         \o OfRequest(Tail(entries), r)

\* the values of a history that are not the terminator
RECURSIVE Payloads(_)
Payloads(vals) ==
    IF vals = <<>> THEN <<>>
    ELSE (IF KindOf(Head(vals)) = "end" THEN <<>> ELSE <<Head(vals)>>)
         \o Payloads(Tail(vals))

HitsOf(cs) == [i \in 1..Len(cs) |-> cs[i].hit]

ScoresOf(hits) == [i \in 1..Len(hits) |-> hits[i].score]

----------------------------------------------------------------------------
(* Properties *)

C2_CitationMatchesReference ==
    built =>
        LET n == Len(citations)
        IN  /\ Len(context_with_citations) = n
            /\ \A i \in 1..n :
                 \E k \in 1..n :
                     /\ citations[k].id = RefId(i)
                     /\ context_with_citations[i].marker = i
                     /\ citations[k].hit = context_with_citations[i].doc.hit
                     /\ citations[k].content_preview =
                            context_with_citations[i].doc.page_content
                     /\ similar_documents_with_scores[citations[k].hit].doc =
                            context_with_citations[i].doc
            /\ \A i, j \in 1..n :
                 i < j => context_with_citations[i].doc.hit
                              < context_with_citations[j].doc.hit

C2_Witness ==
    /\ built
    /\ Len(citations) >= 2
    /\ citations[2].hit > 2
    /\ context_with_citations[2].doc.hit = citations[2].hit

\* C3: the citation list and the filtered chunk list have the same length N and
\* the citation ids are ref_1 .. ref_N in list order.
C3_ContiguousIds ==
    built =>
        /\ Len(citations) = Len(filtered_documents)
        /\ \A i \in 1..Len(citations) : citations[i].id = RefId(i)

C3_Witness ==
    /\ built
    /\ Len(similar_documents_with_scores) > max_citations
    /\ Len(citations) = max_citations
    /\ Len(citations) >= 2
    /\ citations[1].hit > 1

\* C4: a hit is accepted if and only if its score is not greater than the
\* threshold and fewer than max_citations hits were accepted before it; the
\* accepted hits are cited in ranked order.
C4_AcceptanceRule ==
    built =>
        LET accepted == {citations[k].hit : k \in 1..Len(citations)}
        IN  /\ \A i \in 1..Len(similar_documents_with_scores) :
                 i \in accepted <=>
                     /\ similar_documents_with_scores[i].score <= relevance_threshold
                     /\ Cardinality({j \in accepted : j < i}) < max_citations
            /\ \A k \in 1..Len(citations) :
                 /\ citations[k].hit \in 1..Len(similar_documents_with_scores)
                 /\ Cardinality({j \in accepted : j < citations[k].hit}) = k - 1

\* hits scored 0.2, 0.6, 0.3 with threshold 0.4 and max 5: the first hit is ref_1,
\* the third is ref_2
C4_Witness ==
    /\ built
    /\ ScoresOf(similar_documents_with_scores) = <<2, 6, 3>>
    /\ relevance_threshold = 4
    /\ max_citations = 5
    /\ HitsOf(citations) = <<1, 3>>
    /\ citations[1].id = RefId(1)
    /\ citations[2].id = RefId(2)

\* C5: a generation run that has ended, by success, empty retrieval or error,
\* has put exactly one terminator and put it last.
C5_ExactlyOneTerminatorLast ==
    \A r \in Requests :
        Finished(r) =>
            /\ put[r] # <<>>
            /\ KindOf(put[r][Len(put[r])]) = "end"
            /\ CountKind(Kinds(put[r]), "end") = 1

\* C6: when retrieval returns zero hits the run puts exactly the fallback token
\* and then the terminator, and the model is not invoked.
C6_NoDocumentsOutput ==
    \A r \in Requests :
        (gen[r] = "done" /\ similar[r] = <<>>) =>
            /\ ~llm_invoked[r]
            /\ Kinds(put[r]) = <<"token", "end">>
            /\ put[r][1].data = NoDocumentsText

\* C7: a request whose generation thread failed is never left waiting on an
\* empty relay that no thread will write to again.
C7_FailureReachesConsumer ==
    \A r \in Requests :
        ~ /\ gen[r] = "failed"
          /\ con[r] = "waiting"
          /\ streamer_queue = <<>>
          /\ \A q \in Requests \ {r} : Finished(q)

\* C8: the messages a request puts are tokens with at most one title among them,
\* then at most one citations message, then exactly one terminator.
C8_MessageOrder ==
    \A r \in Requests :
        LET ks == Kinds(put[r])
        IN  /\ CountKind(ks, "title") <= 1
            /\ CountKind(ks, "citations") <= 1
            /\ \A i, j \in 1..Len(ks) :
                 (i < j /\ ks[i] = "citations") => ks[j] \notin {"token", "title"}
            /\ \A i \in 1..Len(ks) : ks[i] = "end" => i = Len(ks)
            /\ Finished(r) => CountKind(ks, "end") = 1

\* C9: the consumer loop yields exactly one frame for every token, title and
\* citations message it takes, of the message's kind and payload, and none for
\* the terminator.
C9_OneFramePerMessage ==
    \A r \in Requests :
        LET msgs == Payloads(ValuesOf(taken[r]))
        IN  /\ Len(frames[r]) = Len(msgs)
            /\ \A i \in 1..Len(msgs) :
                 /\ frames[r][i].type = KindOf(msgs[i])
                 /\ frames[r][i].data = msgs[i].data

\* C10: with a single request in flight the consumer takes the messages in the
\* order the thread put them, and none is lost between the put and the get.
C10_FifoOrder ==
    \A r \in Requests :
        SameValues(ValuesOf(taken[r]) \o ValuesOf(OfRequest(streamer_queue, r)),
                   put[r])

C10_Witness ==
    \E r \in Requests :
        /\ con[r] = "ended"
        /\ Kinds(ValuesOf(taken[r])) = <<"title", "token", "citations", "end">>

----------------------------------------------------------------------------
(* Helpers of the properties of the handler and of the endpoint *)

\* the text holds "[", one or more digits, "]"
HasMarker(text) ==
    \E i, j \in 1..Len(text) :
        /\ i + 1 < j
        /\ text[i] = "["
        /\ text[j] = "]"
        /\ \A k \in (i + 1)..(j - 1) : text[k] \in Digits

\* the number of citations built for request r
CitationCount(r) == Len(handler[r].citations)

\* the generated response of request r after the stripping step
CleanedResponse(r) ==
    CleanInvalidCitationsFromCompleteResponse(handler[r].citations, response[r])

\* a text without its leading title line
BodyOf(text) ==
    LET t == ExtractTitleFromResponse(text)
    IN  IF Truthy(t) THEN t.clean ELSE text

CleanedBody(r) == BodyOf(CleanedResponse(r))

\* the citations messages request r has put
CitationsMessages(r) == SelectSeq(put[r], LAMBDA m : KindOf(m) = "citations")

\* the model completed the response of request r
Completed(r) == gen[r] = "done" /\ llm_invoked[r]

\* text is a contiguous piece of whole
IsPieceOf(text, whole) ==
    \E a \in 1..(Len(whole) + 1) :
        /\ a + Len(text) - 1 <= Len(whole)
        /\ \A k \in 1..Len(text) : text[k] = whole[a + k - 1]

\* the response begins with a line "TITLE: <text>" that body text follows
HasTitleLineAndBody(text) ==
    /\ StartsWithTitle(text)
    /\ NewlinePos(text) > 0
    /\ Strip(Slice(text, TitlePrefixLen + 1, NewlinePos(text) - 1)) # <<>>
    /\ Strip(Slice(text, NewlinePos(text) + 1, Len(text))) # <<>>

TitleTextOf(text) == Strip(Slice(text, TitlePrefixLen + 1, NewlinePos(text) - 1))

RawBodyOf(text) == Slice(text, NewlinePos(text) + 1, Len(text))

\* nothing was done for request r beyond the endpoint
NoGenerationWork(r) ==
    /\ con[r] = "idle"
    /\ gen[r] = "unstarted"
    /\ ~llm_invoked[r]
    /\ similar[r] = <<>>
    /\ put[r] = <<>>
    /\ taken[r] = <<>>
    /\ frames[r] = <<>>
    /\ streamer_queue = <<>>

\* every hit retrieval returned for request r is above the threshold
AllHitsAboveThreshold(r) ==
    /\ similar[r] # <<>>
    /\ \A i \in 1..Len(similar[r]) : similar[r][i].score > relevance_threshold

\* the text without the characters of its markers numbered outside 1..n
ExpectedStrip(text, n) ==
    LET invalid == {p \in 1..Len(text) :
                        /\ MatchEnd(text, p) > 0
                        /\ IntOf(text, p + 1, MatchEnd(text, p) - 1) \notin 1..n}
        kept == {q \in 1..Len(text) :
                    \A p \in invalid : q < p \/ q > MatchEnd(text, p)}
        nth(k) == CHOOSE q \in kept : Cardinality({m \in kept : m <= q}) = k
    IN  [k \in 1..Cardinality(kept) |-> text[nth(k)]]

----------------------------------------------------------------------------
(* Properties of the handler, of the endpoint and of the stripping step *)

\* C11: no token delivered to the client of a request holds a marker [n] with n
\* outside 1..N, N the number of citations built for the request.
C11_NoUnbackedMarkerDelivered ==
    \A r \in Requests :
        llm_invoked[r] =>
            \A i \in 1..Len(frames[r]) :
                frames[r][i].type = "token" =>
                    \A n \in MarkerNumbers(frames[r][i].data) :
                        n \in 1..CitationCount(r)

\* C12 as claimed: a citations message holds exactly the citations whose numbers
\* appear in the cleaned, title-stripped response, by ascending number, renamed
\* ref_1, ref_2, ...
C12_OnlyUsedCitations ==
    \A r \in Requests :
        Completed(r) =>
            \A i \in 1..Len(CitationsMessages(r)) :
                CitationsMessages(r)[i].data
                    = UsedSubset(handler[r].citations, CleanedBody(r))

\* C12 as amended: when at least one citation was built and the cleaned,
\* title-stripped response holds a marker, the one citations message holds the
\* whole candidate list, ids ref_1 .. ref_N unchanged.
C12_AllCandidates ==
    \A r \in Requests :
        Completed(r) =>
            /\ (CitationCount(r) >= 1 /\ MarkerNumbers(CleanedBody(r)) # {})
                   => Len(CitationsMessages(r)) = 1
            /\ \A i \in 1..Len(CitationsMessages(r)) :
                 LET data == CitationsMessages(r)[i].data
                 IN  /\ data = handler[r].citations
                     /\ Len(data) = CitationCount(r)
                     /\ \A k \in 1..Len(data) : data[k].id = RefId(k)

C12_Witness ==
    \E r \in Requests :
        /\ Completed(r)
        /\ CitationCount(r) = 2
        /\ MarkerNumbers(CleanedBody(r)) = {1}
        /\ Len(CitationsMessages(r)) = 1
        /\ Len(CitationsMessages(r)[1].data) = 2

\* C13: when the cleaned response holds no marker, no citations message is put.
C13_NoMarkerNoCitations ==
    \A r \in Requests :
        (Completed(r) /\ ~HasMarker(CleanedResponse(r)))
            => CitationsMessages(r) = <<>>

C13_Witness ==
    \E r \in Requests :
        /\ Completed(r)
        /\ CitationCount(r) >= 1
        /\ HasMarker(response[r])
        /\ ~HasMarker(CleanedResponse(r))
        /\ CitationsMessages(r) = <<>>

\* C14: when the response begins with a title line that body text follows, a
\* title message carrying the title text is put before every token message, and
\* every token message is a piece of the body.
C14_TitleBeforeBody ==
    \A r \in Requests :
        (llm_invoked[r] /\ HasTitleLineAndBody(response[r])) =>
            \E t \in 1..Len(put[r]) :
                /\ KindOf(put[r][t]) = "title"
                /\ put[r][t].data = TitleTextOf(response[r])
                /\ \A i \in 1..Len(put[r]) :
                     KindOf(put[r][i]) = "token" =>
                         /\ t < i
                         /\ IsPieceOf(put[r][i].data, RawBodyOf(response[r]))

\* C15: of two requests served one after the other, neither consumer takes a
\* message that the thread of the other request put.
C15_SerialIsolation ==
    \A a, b \in Requests :
        a # b => \A i \in 1..Len(taken[b]) : taken[b][i].req # a

\* C16: a query longer than max_query_length is rejected with 400 naming the
\* maximum and no generation work is done for it; a query of at most the
\* maximum is accepted.
C16_TooLongRejected ==
    \A r \in Requests :
        ask[r].phase \notin {"none", "verified", "forbidden"} =>
            /\ ask[r].query_len > DefaultMaxQueryLength =>
                   /\ ask[r].phase = "too_long"
                   /\ ask[r].status = 400
                   /\ ask[r].detail = DefaultMaxQueryLength
                   /\ NoGenerationWork(r)
            /\ ask[r].query_len <= DefaultMaxQueryLength =>
                   /\ ask[r].phase = "accepted"
                   /\ ask[r].status = 200

C16_Witness ==
    \E r \in Requests :
        /\ ask[r].phase = "too_long"
        /\ ask[r].query_len = DefaultMaxQueryLength + 1
        /\ ask[r].status = 400

\* C17: a request with neither the configured API key nor all three OIDC headers
\* is rejected with 403 and no generation work is done for it.
C17_ForbiddenRejected ==
    \A r \in Requests :
        ( /\ ask[r].phase # "none"
          /\ ask[r].x_api_key # API_KEY
          /\ \E h \in {ask[r].x_amzn_oidc_data, ask[r].x_amzn_oidc_identity,
                       ask[r].x_amzn_oidc_accesstoken} : h \in {NoHeader, ""} )
            => /\ ask[r].phase = "forbidden"
               /\ ask[r].status = 403
               /\ NoGenerationWork(r)

C17_Witness ==
    \E r \in Requests :
        /\ ask[r].phase = "forbidden"
        /\ ask[r].x_api_key = "wrong"
        /\ ask[r].x_amzn_oidc_data = "v"
        /\ ask[r].x_amzn_oidc_identity = "v"
        /\ ask[r].x_amzn_oidc_accesstoken = NoHeader

\* C18: when every retrieved hit is above the threshold the model is invoked
\* with an empty reference block and no citations message is put.
C18_AllFilteredNoCitations ==
    \A r \in Requests :
        AllHitsAboveThreshold(r) =>
            /\ llm_invoked[r]
            /\ CitationCount(r) = 0
            /\ ContextWithCitations(
                   BuildLists(similar[r], relevance_threshold,
                              max_citations).filtered_documents) = <<>>
            /\ CitationsMessages(r) = <<>>
            /\ \A i \in 1..Len(put[r]) :
                 KindOf(put[r][i]) = "token" => put[r][i].data # NoDocumentsText

C18_Witness ==
    \E r \in Requests :
        /\ AllHitsAboveThreshold(r)
        /\ Completed(r)
        /\ HasMarker(response[r])
        /\ CitationsMessages(r) = <<>>

\* C19: the stripping step returns the text without its markers numbered outside
\* 1..N and with every other character unchanged, for every N >= 0.
C19_StripDeletesInvalidOnly ==
    stripped # <<>> =>
        stripped[1] = ExpectedStrip(strip_text, Len(strip_citations))

\* C20: stripping the stripped text again changes nothing.
C20_StripIdempotent ==
    stripped_again # <<>> => stripped_again[1] = stripped[1]

----------------------------------------------------------------------------
(* Properties of the title buffering, of the completion and of the relay *)

\* C21: a marker that occurs only in the title line of the response never causes
\* a citations message: when the response without its title line holds no
\* marker, no citations message is put.
C21_ScansIgnoreTitleLine ==
    \A r \in Requests :
        (Completed(r) /\ ~HasMarker(BodyOf(response[r])))
            => CitationsMessages(r) = <<>>

\* C22: when generation completes while the handler is still buffering, the
\* buffered body is put as a token message before the terminator.
C22_ShortResponseDelivered ==
    \A r \in Requests :
        (Completed(r) /\ handler[r].buffering /\ BodyOf(response[r]) # <<>>) =>
            \E i, j \in 1..Len(put[r]) :
                /\ i < j
                /\ KindOf(put[r][i]) = "token"
                /\ put[r][i].data = BodyOf(response[r])
                /\ KindOf(put[r][j]) = "end"

\* the text holds a newline that a character other than whitespace follows
NewlineThenContent(text) ==
    \E i \in 1..Len(text) :
        /\ text[i] = "\n"
        /\ \E j \in (i + 1)..Len(text) : text[j] \notin Whitespace

\* on_llm_new_token has run for request r in this step
TokenArrives(r) == response'[r] # response[r]

\* C23 as claimed: while the handler buffers nothing is put, and the buffering
\* ends at the first token after which the buffer holds a newline followed by
\* content or is BufferCap characters long.
C23_ResolvesAtCap ==
    [][\A r \in Requests :
          (handler[r].buffering /\ TokenArrives(r)) =>
              /\ handler'[r].buffering <=>
                     ~(\/ NewlineThenContent(response'[r])
                       \/ Len(response'[r]) >= BufferCap)
              /\ handler'[r].buffering => put'[r] = <<>>]_vars

\* C23 as amended: while the handler buffers during streaming nothing is put, and
\* the buffering ends at the first token after which the buffer holds a newline
\* followed by content or is longer than BufferCap characters.
C23_ResolvesPastCap ==
    [][\A r \in Requests :
          (handler[r].buffering /\ TokenArrives(r)) =>
              /\ handler'[r].buffering <=>
                     ~(\/ NewlineThenContent(response'[r])
                       \/ Len(response'[r]) > BufferCap)
              /\ handler'[r].buffering =>
                     /\ put'[r] = <<>>
                     /\ handler'[r].token_buffer = response'[r]]_vars

C23_Witness ==
    \E r \in Requests :
        /\ gen[r] = "streaming"
        /\ handler[r].buffering
        /\ Len(handler[r].token_buffer) = BufferCap
        /\ put[r] = <<>>

\* the token on_llm_new_token received for request r in this step
ArrivedToken(r) == Slice(response'[r], Len(response[r]) + 1, Len(response'[r]))

\* the put history of request r grows in this step by the values vals alone
PutsExactly(r, vals) ==
    /\ Len(put'[r]) = Len(put[r]) + Len(vals)
    /\ \A i \in 1..Len(put[r]) : SameValue(put'[r][i], put[r][i])
    /\ \A i \in 1..Len(vals) : SameValue(put'[r][Len(put[r]) + i], vals[i])

\* C24: once title_processed is set the handler never buffers again, its token
\* buffer stays empty, every later token is put as its own token message, and
\* at most one title message is put for the request.
C24_ResolvesOnce ==
    [][\A r \in Requests :
          /\ handler[r].title_processed =>
                 /\ handler'[r].title_processed
                 /\ ~handler'[r].buffering
                 /\ handler'[r].token_buffer = <<>>
                 /\ TokenArrives(r) => PutsExactly(r, <<StrMsg(ArrivedToken(r))>>)
          /\ CountKind(Kinds(put'[r]), "title") <= 1]_vars

C24_Witness ==
    \E r \in Requests :
        /\ Completed(r)
        /\ handler[r].title_processed
        /\ Len(put[r]) = 3
        /\ KindOf(put[r][1]) = "title"
        /\ KindOf(put[r][2]) = "token"
        /\ put[r][2].data = TokPlain
        /\ KindOf(put[r][3]) = "end"

\* the payloads of the token messages of a put history, concatenated
RECURSIVE TokenText(_)
TokenText(vals) ==
    IF vals = <<>> THEN <<>>
    ELSE (IF KindOf(Head(vals)) = "token" THEN Head(vals).data ELSE <<>>)
         \o TokenText(Tail(vals))

\* C25: when the buffering resolves with a title, a title message and then one
\* token message with the text after the title line are put, no character added
\* or removed, so that the token payloads concatenated are the response body.
C25_RemainderExact ==
    \A r \in Requests :
        ( /\ llm_invoked[r]
          /\ handler[r].title_processed
          /\ put[r] # <<>>
          /\ KindOf(put[r][1]) = "title"
          /\ NewlinePos(response[r]) \in 1..BufferCap )
            => /\ Len(put[r]) >= 2
               /\ KindOf(put[r][2]) = "token"
               /\ TokenText(put[r]) = RawBodyOf(response[r])

\* on_llm_end has run for request r in this step
CompletionRuns(r) == gen[r] = "streaming" /\ gen'[r] = "done"

\* C26: whenever on_llm_end runs it puts exactly one terminator, as the last
\* value it puts, whether or not it put a title or a citations message.
C26_CompletionEndsWithTerminator ==
    [][\A r \in Requests :
          CompletionRuns(r) =>
              LET old == Len(put[r])
                  new == Len(put'[r])
              IN  /\ new > old
                  /\ KindOf(put'[r][new]) = "end"
                  /\ Cardinality({i \in (old + 1)..new :
                                     KindOf(put'[r][i]) = "end"}) = 1
                  /\ streamer_queue' # <<>>
                  /\ streamer_queue'[Len(streamer_queue')].req = r
                  /\ KindOf(streamer_queue'[Len(streamer_queue')].val) = "end"]_vars

C26_Witness ==
    \E r \in Requests :
        /\ Completed(r)
        /\ response[r] # <<>>
        /\ Len(put[r]) = 1
        /\ KindOf(put[r][1]) = "end"

\* start_generation is called for request r in this step
ThreadStarts(r) == con[r] = "starting" /\ con'[r] = "waiting"

\* C27: at the moment the generation thread of a request is started, the queue
\* holds no message that another request put.
C27_QueueCleanAtStart ==
    [][\A r \in Requests :
          ThreadStarts(r) =>
              \A i \in 1..Len(streamer_queue) : streamer_queue[i].req = r]_vars

\* C28: at no time are two consumer loops reading from the queue.
C28_OneConsumerAtATime ==
    \A a, b \in Requests :
        a # b => ~(con[a] = "waiting" /\ con[b] = "waiting")

\* C29: the handler of a generation run is created for the run with an empty
\* citation list, empty response text, empty token buffer, title_processed false
\* and buffering true, and it receives the citations and the tokens of its own
\* request only.
C29_FreshHandlerPerRun ==
    \A r \in Requests :
        /\ gen[r] = "running" =>
               /\ handler[r].citations = <<>>
               /\ handler[r].complete_response = <<>>
               /\ handler[r].token_buffer = <<>>
               /\ handler[r].title_processed = FALSE
               /\ handler[r].buffering = TRUE
        /\ gen[r] = "streaming" =>
               /\ handler[r].complete_response = response[r]
               /\ handler[r].citations =
                      BuildLists(similar[r], relevance_threshold,
                                 max_citations).citations
        /\ Completed(r) =>
               handler[r].citations =
                   BuildLists(similar[r], relevance_threshold,
                              max_citations).citations

C29_Witness ==
    \E a, b \in Requests :
        /\ a # b
        /\ gen[a] = "streaming"
        /\ gen[b] = "streaming"
        /\ response[a] # <<>>
        /\ response[b] # <<>>
        /\ response[a] # response[b]
        /\ handler[a].citations # handler[b].citations

\* C30: after a client disconnect no read of the queue on behalf of the request
\* stays pending for ever: a read left blocked when the generator was cancelled
\* returns.
C30_NoReadPendingForever ==
    \A r \in Requests : (con[r] = "abandoned") ~> (con[r] = "closed")

----------------------------------------------------------------------------
(* Properties of the queue, of the builder, of the prompt and of the store *)

\* C31: a put of the generation thread never waits: in no state is the queue
\* full, whatever it holds and whether or not a consumer reads it.
C31_PutNeverBlocks ==
    /\ ~QueueFull(streamer_queue)
    /\ \A r \in Requests :
         gen[r] \in {"running", "streaming"} =>
             \A n \in 0..2 :
                 ~QueueFull(streamer_queue \o [i \in 1..n |-> [req |-> r, val |-> StopSignal]])

C31_Witness ==
    \E r \in Requests :
        /\ con[r] \in {"abandoned", "closed"}
        /\ Completed(r)
        /\ frames[r] = <<>>
        /\ Len(streamer_queue) >= 2
        /\ KindOf(streamer_queue[Len(streamer_queue)].val) = "end"

\* the number of citations generate accepts from hits
AcceptedCount(hits, threshold, maxc) == Len(BuildLists(hits, threshold, maxc).citations)

\* C32: for the hit list of the run, no higher threshold accepts fewer
\* citations than the configured one and no lower max_citations accepts more.
C32_MonotoneAcceptance ==
    built =>
        /\ Len(citations) = AcceptedCount(similar_documents_with_scores,
                                          relevance_threshold, max_citations)
        /\ \A t \in Scores :
             t >= relevance_threshold =>
                 AcceptedCount(similar_documents_with_scores, t, max_citations)
                     >= Len(citations)
        /\ \A m \in 0..max_citations :
             AcceptedCount(similar_documents_with_scores, relevance_threshold, m)
                 <= Len(citations)

\* hits scored 0.2, 0.6, 0.3 with threshold 0.4 and max 3: two citations; a
\* threshold of 0.6 gives three, a max of 1 gives one
C32_Witness ==
    /\ built
    /\ ScoresOf(similar_documents_with_scores) = <<2, 6, 3>>
    /\ relevance_threshold = 4
    /\ max_citations = 3
    /\ Len(citations) = 2
    /\ AcceptedCount(similar_documents_with_scores, 6, max_citations) = 3
    /\ AcceptedCount(similar_documents_with_scores, relevance_threshold, 1) = 1

\* C33: the prompt given to the model holds every (user, bot) pair the client
\* sent with the request, in order, in the section before the question.
C33_PromptHoldsClientHistory ==
    \A r \in Requests :
        llm_invoked[r] =>
            /\ prompt[r].chat_context = ChatContext(ask[r].sent_chat_history)
            /\ \E i, j \in 1..Len(prompt[r].sections) :
                 /\ i < j
                 /\ prompt[r].sections[i] = "CHAT HISTORY"
                 /\ prompt[r].sections[j] = "QUESTION"

\* the markers the citation rules and the example of a prompt name as usable
MarkersNamedUsable(p) ==
    {p.not_higher_than} \union {p.example[i] : i \in 1..Len(p.example)}
        \union {p.available_citations[i] : i \in 1..Len(p.available_citations)}

\* C34: a prompt with zero references names no marker as usable: no "[0]", no
\* example marker of a reference that was not given.
C34_ZeroReferencePrompt ==
    \A r \in Requests :
        (llm_invoked[r] /\ prompt[r].num_references = 0) =>
            \A m \in MarkersNamedUsable(prompt[r]) :
                m \in 1..prompt[r].num_references

\* the source of the document as the loader stored it
MetadataSource(metadata) ==
    MetadataGet(metadata.source, MetadataGet(metadata.file_path, UnknownSource)).text

\* the extension of a path, lower-cased: the text from its last dot
RECURSIVE LastDot(_, _)
LastDot(t, i) == IF i = 0 THEN 0 ELSE IF t[i] = "." THEN i ELSE LastDot(t, i - 1)

Extension(t) ==
    IF LastDot(t, Len(t)) = 0 THEN <<>>
    ELSE StrLower(SubSeq(t, LastDot(t, Len(t)), Len(t)))

\* C35: the page of the citation is the metadata page plus one for an integer
\* page of a .pdf source, null for a .csv source, and the metadata page (null
\* when absent) otherwise.
C35_PageRule ==
    cited.done =>
        LET ext == Extension(MetadataSource(doc_metadata))
            page == doc_metadata.page
        IN  cited.page =
                IF ext = DotCsv THEN PyNone
                ELSE IF ext = DotPdf /\ page.py = "int" THEN PyInt(page.int + 1)
                ELSE IF page = Absent THEN PyNone
                ELSE page

\* page 0 of "./a.pdf" is cited as page 1
C35_Witness ==
    /\ cited.done
    /\ doc_metadata.source = PyStr(<<".", "/", "a", ".", "p", "d", "f">>)
    /\ doc_metadata.page = PyInt(0)
    /\ cited.page = PyInt(1)
    /\ cited.local_path = <<"a", ".", "p", "d", "f">>

MessagesOf(rows, conversation_id) == {m \in rows : m.conversation_id = conversation_id}

\* C36: a call of user u leaves every conversation of another owner, and its
\* messages, as they were, and returns rows of u's own conversations only.
C36_OwnershipIsolation ==
    [][ /\ \A c \in conversations :
              c.user_id # db_call'.user_id =>
                  /\ c \in conversations'
                  /\ MessagesOf(messages', c.id) = MessagesOf(messages, c.id)
        /\ \A c \in db_call'.returned_conversations :
              c.user_id = db_call'.user_id
        /\ \A m \in db_call'.returned_messages :
              \E c \in conversations :
                  c.id = m.conversation_id /\ c.user_id = db_call'.user_id
      ]_vars

\* the rows a payload stores for its conversation
RowsOfPayload(conversation) ==
    {[id |-> conversation.messages[i].id, conversation_id |-> conversation.id,
      content |-> conversation.messages[i].content] :
        i \in 1..Len(conversation.messages)}

\* C37: a save that returns True leaves exactly the payload's messages in the
\* conversation, one row per message; a save that returns False leaves both
\* tables as they were.
C37_SaveAllOrNothing ==
    [][ db_call'.op = "save" =>
            LET conversation == [id |-> db_call'.conversation_id,
                                 title |-> db_call'.title,
                                 messages |-> db_call'.sent]
            IN  IF db_call'.ok
                THEN /\ MessagesOf(messages', conversation.id)
                            = RowsOfPayload(conversation)
                     /\ Cardinality(RowsOfPayload(conversation))
                            = Len(conversation.messages)
                     /\ \E c \in conversations' :
                            c.id = conversation.id /\ c.title = conversation.title
                     /\ \A k \in ConversationIds \ {conversation.id} :
                            MessagesOf(messages', k) = MessagesOf(messages, k)
                ELSE /\ conversations' = conversations
                     /\ messages' = messages
                     /\ \E i \in 1..Len(conversation.messages) :
                           \/ \E m \in messages :
                                 /\ m.id = conversation.messages[i].id
                                 /\ m.conversation_id # conversation.id
                           \/ \E j \in 1..(i - 1) :
                                 conversation.messages[j].id = conversation.messages[i].id
      ]_vars

\* a save into a conversation that holds a message has failed and the message
\* is still there
C37_Witness ==
    /\ db_call.op = "save"
    /\ ~db_call.ok
    /\ \E c \in conversations : c.id = db_call.conversation_id
    /\ MessagesOf(messages, db_call.conversation_id) # {}

====
